---------------------------- MODULE Spec2Model ----------------------------
(***************************************************************************)
(* Model of zfs-backup-restore: the backup run of backup.py (snapshot      *)
(* listing, creation, the backup pipeline, pruning, destroy with retries,  *)
(* SIGTERM handling), backup runs in sequence over one dataset and one     *)
(* bucket, the compressor registry of compression.py, and the restore run  *)
(* of restore.py (chain resolution, confirmation prompt, the receive       *)
(* pipelines).                                                             *)
(*                                                                         *)
(* Text (snapshot names, object names) is a sequence of one-character      *)
(* strings; Python's None and '' are both the empty sequence, which is     *)
(* exactly how the code tests them ("if not snapshot_name").               *)
(***************************************************************************)
EXTENDS Integers, Sequences, FiniteSets, TLC

\* ------------------------------------------------------------------ bounds
\* Snapshots of the dataset that exist before the run starts.
MaxPrior == 2
\* Largest configured snapshot_retention (the smallest is -1).
MaxRetention == 2
\* Termination requests (SIGTERM) delivered to one backup run.
MaxSignals == 2
\* Entries of the remote listing handed to find_backup_chain.
MaxListing == 3

\* Backup runs of one dataset, one after the other.
MaxRuns == 3

\* ------------------------------------------------------- program constants
\* backup.py:78 and backup.py:79
retries == 5
delay == 2

\* --------------------------------------------------------------- text
None == <<>>

Truthy(x) == x # <<>>

\* The placeholders of a datetime and of a BackupInfo that is None
NoTimestamp == [Y |-> 0, m |-> 0, d |-> 0, H |-> 0, M |-> 0, S |-> 0]

NoBackup == [path |-> None, snapshot_name |-> None, timestamp |-> NoTimestamp,
             type |-> "", size |-> 0]

StartsWith(s, p) == Len(p) <= Len(s) /\ SubSeq(s, 1, Len(p)) = p

EndsWith(s, p) == Len(p) <= Len(s) /\ SubSeq(s, Len(s) - Len(p) + 1, Len(s)) = p

\* Python's "sub in s"
Contains(s, sub) ==
    \E i \in 0..(Len(s) - Len(sub)) : SubSeq(s, i + 1, i + Len(sub)) = sub

DigitChars == <<"0", "1", "2", "3", "4", "5", "6", "7", "8", "9">>

Digit(n) == DigitChars[n + 1]

Pad2(n) == <<Digit((n \div 10) % 10), Digit(n % 10)>>

Pad4(n) == <<Digit((n \div 1000) % 10), Digit((n \div 100) % 10),
             Digit((n \div 10) % 10), Digit(n % 10)>>

\* datetime.now(): the clock counts seconds from 2024-01-01 00:00:00 and
\* stays within January.
now(c) == [Y |-> 2024, m |-> 1, d |-> 1 + (c \div 86400),
           H |-> (c \div 3600) % 24, M |-> (c \div 60) % 60, S |-> c % 60]

\* strftime with TIMESTAMP_FORMAT '%Y-%m-%d_%H-%M-%S'
strftime(t) ==
    Pad4(t.Y) \o <<"-">> \o Pad2(t.m) \o <<"-">> \o Pad2(t.d) \o <<"_">>
        \o Pad2(t.H) \o <<"-">> \o Pad2(t.M) \o <<"-">> \o Pad2(t.S)

\* ------------------------------------------------------ compressor registry
COMPRESSORS == <<
    [name |-> "gzip", compress_cmd |-> "gzip -c", decompress_cmd |-> "gzip -d",
     extension |-> <<"g", "z">>],
    [name |-> "pigz", compress_cmd |-> "pigz -c", decompress_cmd |-> "pigz -d",
     extension |-> <<"g", "z">>],
    [name |-> "zstd", compress_cmd |-> "zstd -T0", decompress_cmd |-> "zstd -d",
     extension |-> <<"z", "s", "t">>] >>

DEFAULT_COMPRESSOR == "pigz"

\* _by_name = {c.name: c for c in COMPRESSORS}: the last entry of a name wins
by_name(n) ==
    LET idx == {i \in 1..Len(COMPRESSORS) : COMPRESSORS[i].name = n}
    IN  COMPRESSORS[CHOOSE i \in idx : \A j \in idx : j <= i]

get_compressor_by_name(n) ==
    IF \E i \in 1..Len(COMPRESSORS) : COMPRESSORS[i].name = n
    THEN by_name(n)
    ELSE by_name(DEFAULT_COMPRESSOR)

\* An entry of a Python dict, which keeps its keys in the order of their
\* first insertion
dict_set(d, k, v) ==
    IF \E i \in 1..Len(d) : d[i].key = k
    THEN [i \in 1..Len(d) |-> IF d[i].key = k THEN [key |-> k, value |-> v] ELSE d[i]]
    ELSE Append(d, [key |-> k, value |-> v])

RECURSIVE dict_by_extension(_)
dict_by_extension(cs) ==
    IF Len(cs) = 0 THEN <<>>
    ELSE dict_set(dict_by_extension(SubSeq(cs, 1, Len(cs) - 1)),
                  cs[Len(cs)].extension, cs[Len(cs)])

\* _by_extension = {c.extension: c for c in COMPRESSORS}
by_extension == dict_by_extension(COMPRESSORS)

\* get_compressor_by_filename returning None
NoCompressor == [name |-> "", compress_cmd |-> "", decompress_cmd |-> "",
                 extension |-> <<>>]

\* the first item of _by_extension.items() whose extension ends the filename
get_compressor_by_filename(filename) ==
    LET hits == {i \in 1..Len(by_extension) :
                    EndsWith(filename, <<".">> \o by_extension[i].key)}
    IN  IF hits = {} THEN NoCompressor
        ELSE by_extension[CHOOSE i \in hits : \A j \in hits : i <= j].value

\* ------------------------------------------------------------ configuration
\* zfs.dataset and zfs.snapshot_prefix of the modelled configuration
Dataset == <<"d">>
Prefix == <<"p">>

Retentions == (-1)..MaxRetention

\* compression.compressor of the configuration: the registered names and
\* one the registry does not know
CompressorNames == {"gzip", "pigz", "zstd", "lz4"}

Configs ==
    [zfs_dataset : {Dataset}, snapshot_prefix : {Prefix},
     snapshot_retention : Retentions,
     rclone_remote : {<<"r">>}, bucket_name : {<<"b">>},
     compressor : CompressorNames]

\* f'{config.zfs_dataset}@{config.snapshot_prefix}'
SnapshotBase(config) == config.zfs_dataset \o <<"@">> \o config.snapshot_prefix

\* f'{config.zfs_dataset}@{config.snapshot_prefix}{timestamp}'
SnapshotName(config, c) == SnapshotBase(config) \o strftime(now(c))


\* ------------------------------------------------------------------ state
VARIABLES
    cfg,              \* config: BackupConfig
    args_full,        \* args.full
    clock,            \* the wall clock read by datetime.now()
    zfs,              \* snapshots the zfs subsystem holds, in creation order
    pc,               \* position of main()
    snapshots,        \* main: snapshots
    latest_snapshot,  \* main: latest_snapshot
    new_snapshot,     \* main: new_snapshot
    backup_process,   \* main: backup_process (bound: not None)
    proc,             \* the pipeline's process group, as the OS holds it
    cmd_ok,           \* outcome of the last 'zfs snapshot' command
    prune_list,       \* prune_snapshots: snapshots
    to_prune,         \* prune_snapshots: snapshots_to_prune
    prune_i,          \* prune_snapshots: position of the for loop
    ds,               \* frame of the destroy_snapshot call
    trace,            \* attempts and sleeps of the latest destroy_snapshot call
    destroy_log,      \* every 'zfs destroy' issued, with the pipeline's state then
    prune_calls,      \* snapshots prune_snapshots handed to destroy_snapshot
    shutdown,         \* steps the KeyboardInterrupt handler has performed
    signals,          \* SIGTERMs delivered: where main was, what existed
    created,          \* 'zfs snapshot' of new_snapshot has succeeded
    prune_invoked,    \* prune_snapshots was called
    exit_status,      \* exit status of the run (meaningful once pc = "exited")
    remote,           \* objects of the bucket, in upload order
    runs,             \* backup runs started so far
    backups,          \* restore: the remote listing
    chain,            \* restore: result of find_backup_chain
    rpc,              \* restore: position of main()
    confirm,          \* restore: confirm (bound: input() has returned)
    restore_i,        \* restore: position of the for loop over incrementals
    received,         \* restore: the pipelines started, in order, with their outcome
    restore_status    \* restore: exit status (meaningful once rpc = "exited")

backup_vars ==
    <<cfg, args_full, clock, zfs, pc, snapshots, latest_snapshot, new_snapshot,
      backup_process, proc, cmd_ok, prune_list, to_prune, prune_i, ds, trace,
      destroy_log, prune_calls, shutdown, signals, created, prune_invoked,
      exit_status, remote, runs>>

restore_vars == <<backups, chain, rpc, confirm, restore_i, received, restore_status>>

vars == <<backup_vars, remote, runs, restore_vars>>

\* ------------------------------------------------------- backup.py helpers
\* get_snapshots: the listing, creation-ordered, filtered by substring
get_snapshots(listing, config) ==
    SelectSeq(listing, LAMBDA s : Contains(s, SnapshotBase(config)))

\* latest_snapshot_of without the reset of line 124
latest_snapshot_ignoring_full(snaps, full) ==
    IF Len(snaps) > 0 THEN snaps[Len(snaps)] ELSE None

\* main, lines 120-124
latest_snapshot_of(snaps, full) ==
    IF full THEN None
    ELSE IF Len(snaps) > 0 THEN snaps[Len(snaps)] ELSE None

\* backup_snapshot, lines 31-46: the pipeline it builds
backup_snapshot(config, snapshot_name, last_snapshot) ==
    LET compressor == get_compressor_by_name(config.compressor)
        target == config.rclone_remote \o <<":">> \o config.bucket_name \o <<"/">>
    IN  IF Truthy(last_snapshot)
        THEN [zfs_send    |-> [incremental |-> TRUE, from |-> last_snapshot,
                               to |-> snapshot_name],
              compress    |-> compressor.compress_cmd,
              remote_path |-> target \o snapshot_name
                                \o <<"-", "i", "n", "c", "r", "e", "m", "e", "n", "t", "a", "l", ".">>
                                \o compressor.extension]
        ELSE [zfs_send    |-> [incremental |-> FALSE, from |-> None,
                               to |-> snapshot_name],
              compress    |-> compressor.compress_cmd,
              remote_path |-> target \o snapshot_name
                                \o <<"-", "f", "u", "l", "l", ".">>
                                \o compressor.extension]

\* snapshots_to_prune keeping one snapshot too few
snapshots_to_prune_off_by_one(snaps, retention) ==
    IF Len(snaps) > retention
    THEN SubSeq(snaps, 1, Len(snaps) - retention + 1)
    ELSE <<>>

\* prune_snapshots, lines 63-64
snapshots_to_prune(snaps, retention) ==
    IF Len(snaps) > retention
    THEN SubSeq(snaps, 1, Len(snaps) - retention)
    ELSE <<>>

\* retry after a failure of any kind
retry_any_failure(result, attempt) == attempt < retries - 1

\* retry with the bound of the loop instead of retries - 1
retry_on_last_attempt(result, attempt) == result = "busy" /\ attempt < retries

\* destroy_snapshot, line 90
retry(result, attempt) == result = "busy" /\ attempt < retries - 1

\* backup_succeeded taking death by a signal for the only failure
backup_succeeded_unless_killed(returncode) == returncode >= 0

\* main, line 134
backup_succeeded(returncode) == returncode = 0

NoCmd == [zfs_send |-> [incremental |-> FALSE, from |-> None, to |-> None],
          compress |-> "", remote_path |-> None]

NoProc == [state |-> "none", status |-> 0, sigterm |-> FALSE, cmd |-> NoCmd]

NoFrame == [name |-> None, silent |-> FALSE, attempt |-> 0, ret |-> "",
            result |-> "", status |-> "idle"]

\* Exit statuses of the pipeline when it ends by itself ('set -o pipefail':
\* non-zero when any stage fails)
PipeStatuses == {0, 1}

\* A manual snapshot of the dataset, not made by the backup
Foreign == Dataset \o <<"@", "m">>

PriorSnapshots(k) == [i \in 1..k |-> Dataset \o <<"@">> \o Prefix \o strftime(now(i))]

InitialZfs ==
    UNION {{PriorSnapshots(k), <<Foreign>> \o PriorSnapshots(k)} : k \in 0..MaxPrior}

BackupInit ==
    /\ cfg \in Configs
    /\ args_full \in BOOLEAN
    /\ clock = MaxPrior + 1
    /\ zfs \in InitialZfs
    /\ pc = "get_config"
    /\ snapshots = <<>>
    /\ latest_snapshot = None
    /\ new_snapshot = None
    /\ backup_process = [bound |-> FALSE, polled |-> FALSE, returncode |-> 0]
    /\ proc = NoProc
    /\ cmd_ok = FALSE
    /\ prune_list = <<>>
    /\ to_prune = <<>>
    /\ prune_i = 1
    /\ ds = NoFrame
    /\ trace = <<>>
    /\ destroy_log = {}
    /\ prune_calls = <<>>
    /\ shutdown = <<>>
    /\ signals = <<>>
    /\ created = FALSE
    /\ prune_invoked = FALSE
    /\ exit_status = 0
    /\ remote = <<>>
    /\ runs = 1

RestoreIdle ==
    /\ backups = <<>>
    /\ chain = [full |-> NoBackup, incrementals |-> <<>>]
    /\ rpc = "idle"
    /\ confirm = [bound |-> FALSE, text |-> None]
    /\ restore_i = 1
    /\ received = <<>>
    /\ restore_status = 0

Init == BackupInit /\ RestoreIdle

\* ---------------------------------------------------------- backup.py main
\* The end of the process: sys.exit(status), main() returning (0), or an
\* uncaught exception (1; 130 for KeyboardInterrupt).
Exit(status) == pc' = "exited" /\ exit_status' = status

\* Where destroy_snapshot returns to: the for loop of prune_snapshots, the end
\* of main (line 139), or sys.exit(1) (line 151).
Continue(ret) ==
    IF ret = "prune" THEN pc' = "prune_loop" /\ UNCHANGED exit_status
    ELSE IF ret = "fail" THEN Exit(0)
    ELSE Exit(1)

\* destroy_snapshot(snapshot_name, silent), lines 70-79
Call_destroy_snapshot(snapshot_name, silent, ret) ==
    /\ trace' = <<>>
    /\ IF ~Truthy(snapshot_name)
       THEN /\ ds' = [name |-> snapshot_name, silent |-> silent, attempt |-> 0,
                      ret |-> ret, result |-> "", status |-> "returned"]
            /\ Continue(ret)
       ELSE /\ ds' = [name |-> snapshot_name, silent |-> silent, attempt |-> 0,
                      ret |-> ret, result |-> "", status |-> "active"]
            /\ pc' = "ds_run"
            /\ UNCHANGED exit_status

\* line 115
GetConfig ==
    /\ pc = "get_config"
    /\ pc' = "get_snapshots"
    /\ UNCHANGED <<cfg, args_full, clock, zfs, snapshots, latest_snapshot,
                   new_snapshot, backup_process, proc, cmd_ok, prune_list,
                   to_prune, prune_i, ds, trace, destroy_log, prune_calls,
                   shutdown, signals, created, prune_invoked, exit_status,
                   remote, runs, restore_vars>>

\* lines 119-124; 'zfs list' failing raises CalledProcessError, which main
\* does not catch
GetSnapshots ==
    /\ pc = "get_snapshots"
    /\ \/ /\ snapshots' = get_snapshots(zfs, cfg)
          /\ latest_snapshot' = latest_snapshot_of(snapshots', args_full)
          /\ pc' = "timestamp"
          /\ UNCHANGED exit_status
       \/ /\ Exit(1)
          /\ UNCHANGED <<snapshots, latest_snapshot>>
    /\ UNCHANGED <<cfg, args_full, clock, zfs, new_snapshot, backup_process,
                   proc, cmd_ok, prune_list, to_prune, prune_i, ds, trace,
                   destroy_log, prune_calls, shutdown, signals, created,
                   prune_invoked, remote, runs, restore_vars>>

\* lines 126-127
NameSnapshot ==
    /\ pc = "timestamp"
    /\ new_snapshot' = SnapshotName(cfg, clock)
    /\ pc' = "create_snapshot"
    /\ UNCHANGED <<cfg, args_full, clock, zfs, snapshots, latest_snapshot,
                   backup_process, proc, cmd_ok, prune_list, to_prune, prune_i,
                   ds, trace, destroy_log, prune_calls, shutdown, signals,
                   created, prune_invoked, exit_status, remote, runs, restore_vars>>

\* create_snapshot, lines 25-26: the 'zfs snapshot' command runs
CreateSnapshotRun ==
    /\ pc = "create_snapshot"
    /\ pc' = "create_check"
    /\ \/ /\ \A i \in 1..Len(zfs) : zfs[i] # new_snapshot
          /\ zfs' = Append(zfs, new_snapshot)
          /\ cmd_ok' = TRUE
          /\ created' = TRUE
       \/ /\ cmd_ok' = FALSE
          /\ UNCHANGED <<zfs, created>>
    /\ UNCHANGED <<cfg, args_full, clock, snapshots, latest_snapshot,
                   new_snapshot, backup_process, proc, prune_list, to_prune,
                   prune_i, ds, trace, destroy_log, prune_calls, shutdown,
                   signals, prune_invoked, exit_status, remote, runs, restore_vars>>

\* create_snapshot, line 26: check=True raises CalledProcessError, uncaught
CreateSnapshotCheck ==
    /\ pc = "create_check"
    /\ IF cmd_ok THEN pc' = "popen" /\ UNCHANGED exit_status ELSE Exit(1)
    /\ UNCHANGED <<cfg, args_full, clock, zfs, snapshots, latest_snapshot,
                   new_snapshot, backup_process, proc, cmd_ok, prune_list,
                   to_prune, prune_i, ds, trace, destroy_log, prune_calls,
                   shutdown, signals, created, prune_invoked, remote, runs, restore_vars>>

\* line 131, the call: backup_snapshot builds the pipeline and Popen starts it
\* in its own session; the handle is not yet bound to backup_process
Popen ==
    /\ pc = "popen"
    /\ proc' = [state |-> "running", status |-> 0, sigterm |-> FALSE,
                cmd |-> backup_snapshot(cfg, new_snapshot, latest_snapshot)]
    /\ pc' = "store"
    /\ UNCHANGED <<cfg, args_full, clock, zfs, snapshots, latest_snapshot,
                   new_snapshot, backup_process, cmd_ok, prune_list, to_prune,
                   prune_i, ds, trace, destroy_log, prune_calls, shutdown,
                   signals, created, prune_invoked, exit_status, remote, runs, restore_vars>>

\* line 131, the assignment
StoreProcess ==
    /\ pc = "store"
    /\ backup_process' = [bound |-> TRUE, polled |-> FALSE, returncode |-> 0]
    /\ pc' = "wait"
    /\ UNCHANGED <<cfg, args_full, clock, zfs, snapshots, latest_snapshot,
                   new_snapshot, proc, cmd_ok, prune_list, to_prune, prune_i,
                   ds, trace, destroy_log, prune_calls, shutdown, signals,
                   created, prune_invoked, exit_status, remote, runs, restore_vars>>

\* line 132: wait() returns once the shell of the pipeline has exited
Wait ==
    /\ pc = "wait"
    /\ proc.state = "exited"
    /\ backup_process' = [bound |-> TRUE, polled |-> TRUE, returncode |-> proc.status]
    /\ pc' = "check"
    /\ UNCHANGED <<cfg, args_full, clock, zfs, snapshots, latest_snapshot,
                   new_snapshot, proc, cmd_ok, prune_list, to_prune, prune_i,
                   ds, trace, destroy_log, prune_calls, shutdown, signals,
                   created, prune_invoked, exit_status, remote, runs, restore_vars>>

\* lines 134-139
CheckReturn ==
    /\ pc = "check"
    /\ IF backup_succeeded(backup_process.returncode)
       THEN /\ pc' = "prune"
            /\ prune_invoked' = TRUE
            /\ UNCHANGED <<ds, trace, exit_status>>
       ELSE /\ Call_destroy_snapshot(new_snapshot, FALSE, "fail")
            /\ UNCHANGED prune_invoked
    /\ UNCHANGED <<cfg, args_full, clock, zfs, snapshots, latest_snapshot,
                   new_snapshot, backup_process, proc, cmd_ok, prune_list,
                   to_prune, prune_i, destroy_log, prune_calls, shutdown,
                   signals, created, remote, runs, restore_vars>>

\* prune_snapshots, lines 56-65
PruneEnter ==
    /\ pc = "prune"
    /\ IF cfg.snapshot_retention <= 0
       THEN /\ Exit(0)
            /\ UNCHANGED <<prune_list, to_prune, prune_i>>
       ELSE \/ /\ prune_list' = get_snapshots(zfs, cfg)
               /\ to_prune' = snapshots_to_prune(prune_list', cfg.snapshot_retention)
               /\ prune_i' = 1
               /\ pc' = "prune_loop"
               /\ UNCHANGED exit_status
            \/ /\ Exit(1)
               /\ UNCHANGED <<prune_list, to_prune, prune_i>>
    /\ UNCHANGED <<cfg, args_full, clock, zfs, snapshots, latest_snapshot,
                   new_snapshot, backup_process, proc, cmd_ok, ds, trace,
                   destroy_log, prune_calls, shutdown, signals, created,
                   prune_invoked, remote, runs, restore_vars>>

\* prune_snapshots, lines 66-67, and the return to main, which ends
PruneLoop ==
    /\ pc = "prune_loop"
    /\ IF prune_i <= Len(to_prune)
       THEN /\ Call_destroy_snapshot(to_prune[prune_i], TRUE, "prune")
            /\ prune_calls' = Append(prune_calls, to_prune[prune_i])
            /\ prune_i' = prune_i + 1
       ELSE /\ Exit(0)
            /\ UNCHANGED <<ds, trace, prune_calls, prune_i>>
    /\ UNCHANGED <<cfg, args_full, clock, zfs, snapshots, latest_snapshot,
                   new_snapshot, backup_process, proc, cmd_ok, prune_list,
                   to_prune, destroy_log, shutdown, signals, created,
                   prune_invoked, remote, runs, restore_vars>>

\* ------------------------------------------------- backup.py destroy_snapshot
Exists(name) == \E i \in 1..Len(zfs) : zfs[i] = name

\* lines 83-84: one 'zfs destroy' runs. It succeeds, fails with 'dataset is
\* busy', or fails otherwise (always possible: no such snapshot, permissions).
DestroyRun ==
    /\ pc = "ds_run"
    /\ \E result \in {"ok", "busy", "error"} :
        /\ result \in {"ok", "busy"} => Exists(ds.name)
        /\ zfs' = IF result = "ok"
                  THEN SelectSeq(zfs, LAMBDA s : s # ds.name)
                  ELSE zfs
        /\ ds' = [ds EXCEPT !.result = result]
        /\ trace' = Append(trace, [ev |-> "attempt", result |-> result, secs |-> 0])
    /\ destroy_log' = destroy_log \cup
           {[snapshot |-> ds.name, pipeline |-> proc.state,
             status |-> proc.status, by |-> ds.ret]}
    /\ shutdown' = IF ds.ret = "except" /\ ds.attempt = 0
                   THEN Append(shutdown, "destroy")
                   ELSE shutdown
    /\ pc' = "ds_check"
    /\ UNCHANGED <<cfg, args_full, clock, snapshots, latest_snapshot,
                   new_snapshot, backup_process, proc, cmd_ok, prune_list,
                   to_prune, prune_i, prune_calls, signals, created,
                   prune_invoked, exit_status, remote, runs, restore_vars>>

\* lines 85-97 without the sleep: return on success, go on to the sleep on a
\* busy failure with attempts left, break otherwise
DestroyCheck ==
    /\ pc = "ds_check"
    /\ IF ds.result # "ok" /\ retry(ds.result, ds.attempt)
       THEN /\ pc' = "ds_sleep"
            /\ UNCHANGED <<ds, exit_status>>
       ELSE /\ ds' = [ds EXCEPT !.status = "returned"]
            /\ Continue(ds.ret)
    /\ UNCHANGED <<cfg, args_full, clock, zfs, snapshots, latest_snapshot,
                   new_snapshot, backup_process, proc, cmd_ok, prune_list,
                   to_prune, prune_i, trace, destroy_log, prune_calls,
                   shutdown, signals, created, prune_invoked, remote, runs, restore_vars>>

\* line 93 and the next iteration of 'for attempt in range(retries)'
DestroySleep ==
    /\ pc = "ds_sleep"
    /\ trace' = Append(trace, [ev |-> "sleep", result |-> "", secs |-> delay])
    /\ IF ds.attempt + 1 < retries
       THEN /\ ds' = [ds EXCEPT !.attempt = ds.attempt + 1]
            /\ pc' = "ds_run"
            /\ UNCHANGED exit_status
       ELSE /\ ds' = [ds EXCEPT !.status = "returned"]
            /\ Continue(ds.ret)
    /\ UNCHANGED <<cfg, args_full, clock, zfs, snapshots, latest_snapshot,
                   new_snapshot, backup_process, proc, cmd_ok, prune_list,
                   to_prune, prune_i, destroy_log, prune_calls, shutdown,
                   signals, created, prune_invoked, remote, runs, restore_vars>>

\* ------------------------------------------- backup.py KeyboardInterrupt path
\* lines 141-143: 'backup_process and backup_process.poll() is None'
Except ==
    /\ pc = "except"
    /\ IF backup_process.bound /\ ~backup_process.polled /\ proc.state = "running"
       THEN /\ pc' = "killpg"
            /\ UNCHANGED backup_process
       ELSE /\ pc' = "cleanup"
            /\ backup_process' =
                 IF backup_process.bound /\ ~backup_process.polled
                 THEN [bound |-> TRUE, polled |-> TRUE, returncode |-> proc.status]
                 ELSE backup_process
    /\ UNCHANGED <<cfg, args_full, clock, zfs, snapshots, latest_snapshot,
                   new_snapshot, proc, cmd_ok, prune_list, to_prune, prune_i,
                   ds, trace, destroy_log, prune_calls, shutdown, signals,
                   created, prune_invoked, exit_status, remote, runs, restore_vars>>

\* line 146: SIGTERM to the pipeline's process group (a group that has exited
\* but is not reaped takes the signal without effect)
Killpg ==
    /\ pc = "killpg"
    /\ proc' = IF proc.state = "running" THEN [proc EXCEPT !.sigterm = TRUE] ELSE proc
    /\ shutdown' = Append(shutdown, "killpg")
    /\ pc' = "handler_wait"
    /\ UNCHANGED <<cfg, args_full, clock, zfs, snapshots, latest_snapshot,
                   new_snapshot, backup_process, cmd_ok, prune_list, to_prune,
                   prune_i, ds, trace, destroy_log, prune_calls, signals,
                   created, prune_invoked, exit_status, remote, runs, restore_vars>>

\* line 147
HandlerWait ==
    /\ pc = "handler_wait"
    /\ proc.state = "exited"
    /\ backup_process' = [bound |-> TRUE, polled |-> TRUE, returncode |-> proc.status]
    /\ shutdown' = Append(shutdown, "wait")
    /\ pc' = "cleanup"
    /\ UNCHANGED <<cfg, args_full, clock, zfs, snapshots, latest_snapshot,
                   new_snapshot, proc, cmd_ok, prune_list, to_prune, prune_i,
                   ds, trace, destroy_log, prune_calls, signals, created,
                   prune_invoked, exit_status, remote, runs, restore_vars>>

\* lines 150-151 (sys.exit(1) follows the return of destroy_snapshot)
Cleanup ==
    /\ pc = "cleanup"
    /\ Call_destroy_snapshot(new_snapshot, FALSE, "except")
    /\ UNCHANGED <<cfg, args_full, clock, zfs, snapshots, latest_snapshot,
                   new_snapshot, backup_process, proc, cmd_ok, prune_list,
                   to_prune, prune_i, destroy_log, prune_calls, shutdown,
                   signals, created, prune_invoked, remote, runs, restore_vars>>

\* ------------------------------------------------------------- environment
\* The object a pipeline that ends with status 0 has written: rclone rcat
\* stores the stream of 'zfs send' (from the source snapshot, None for a full
\* stream, to the snapshot) under the path behind remote:bucket/
uploaded(config, cmd) ==
    [Path     |-> SubSeq(cmd.remote_path,
                         Len(config.rclone_remote) + Len(config.bucket_name) + 3,
                         Len(cmd.remote_path)),
     Size     |-> 1,
     source   |-> cmd.zfs_send.from,
     snapshot |-> cmd.zfs_send.to]

\* The pipeline's process group ends: killed by the SIGTERM of killpg, or by
\* itself with the status 'set -o pipefail' gives it.
PipelineExit ==
    /\ proc.state = "running"
    /\ \E status \in PipeStatuses :
         /\ proc' = [proc EXCEPT !.state = "exited",
                                 !.status = IF proc.sigterm THEN -15 ELSE status]
         /\ remote' = IF proc'.status = 0
                      THEN Append(remote, uploaded(cfg, proc.cmd))
                      ELSE remote
    /\ UNCHANGED <<cfg, args_full, clock, zfs, pc, snapshots, latest_snapshot,
                   new_snapshot, backup_process, cmd_ok, prune_list, to_prune,
                   prune_i, ds, trace, destroy_log, prune_calls, shutdown,
                   signals, created, prune_invoked, exit_status, runs,
                   restore_vars>>

\* The statements of the try block of main (lines 118-139), the calls made
\* there included.
InTry ==
    \/ pc \in {"get_snapshots", "timestamp", "create_snapshot", "create_check",
               "popen", "store", "wait", "check", "prune", "prune_loop"}
    \/ pc \in {"ds_run", "ds_check", "ds_sleep"} /\ ds.ret \in {"prune", "fail"}

\* signal_handler, lines 108-111: SIGTERM raises KeyboardInterrupt in main at
\* its current position. Inside the try block line 141 catches it; anywhere
\* else (the handler itself, line 115) nothing does and the process ends.
Signal ==
    /\ pc # "exited"
    /\ Len(signals) < MaxSignals
    /\ signals' = Append(signals, [at |-> pc, created |-> created,
                                   pipeline |-> proc.state, caught |-> InTry])
    /\ ds' = IF ds.status = "active" THEN [ds EXCEPT !.status = "aborted"] ELSE ds
    /\ IF InTry THEN pc' = "except" /\ UNCHANGED exit_status ELSE Exit(130)
    /\ UNCHANGED <<cfg, args_full, clock, zfs, snapshots, latest_snapshot,
                   new_snapshot, backup_process, proc, cmd_ok, prune_list,
                   to_prune, prune_i, trace, destroy_log, prune_calls,
                   shutdown, created, prune_invoked, remote, runs, restore_vars>>

Next ==
    \/ GetConfig
    \/ GetSnapshots
    \/ NameSnapshot
    \/ CreateSnapshotRun
    \/ CreateSnapshotCheck
    \/ Popen
    \/ StoreProcess
    \/ Wait
    \/ CheckReturn
    \/ PruneEnter
    \/ PruneLoop
    \/ DestroyRun
    \/ DestroyCheck
    \/ DestroySleep
    \/ Except
    \/ Killpg
    \/ HandlerWait
    \/ Cleanup
    \/ PipelineExit
    \/ Signal

Spec == Init /\ [][Next]_vars

\* ------------------------------------------------- backup runs in sequence
\* The first backup of a dataset that has no snapshot yet
RunsInit ==
    /\ BackupInit
    /\ RestoreIdle
    /\ cfg.compressor = "zstd"
    /\ cfg.snapshot_retention \in {-1, 1}
    /\ zfs = <<>>

\* backup.py is started again (lines 154-155) once the previous run and its
\* pipeline have ended, at a later second: main() starts afresh, the
\* snapshots of the dataset and the objects of the bucket are what the
\* earlier runs left.
NextRun ==
    /\ pc = "exited"
    /\ proc.state # "running"
    /\ runs < MaxRuns
    /\ runs' = runs + 1
    /\ clock' = clock + 1
    /\ args_full' \in BOOLEAN
    /\ pc' = "get_config"
    /\ snapshots' = <<>>
    /\ latest_snapshot' = None
    /\ new_snapshot' = None
    /\ backup_process' = [bound |-> FALSE, polled |-> FALSE, returncode |-> 0]
    /\ proc' = NoProc
    /\ cmd_ok' = FALSE
    /\ prune_list' = <<>>
    /\ to_prune' = <<>>
    /\ prune_i' = 1
    /\ ds' = NoFrame
    /\ trace' = <<>>
    /\ destroy_log' = {}
    /\ prune_calls' = <<>>
    /\ shutdown' = <<>>
    /\ signals' = <<>>
    /\ created' = FALSE
    /\ prune_invoked' = FALSE
    /\ exit_status' = 0
    /\ UNCHANGED <<cfg, zfs, remote, restore_vars>>

RunsNext == Next \/ NextRun

RunsSpec == RunsInit /\ [][RunsNext]_vars

\* ------------------------------------------------------- restore.py text
\* Index of the first occurrence of sub in s at or after position from; 0 if none
Find(s, sub, from) ==
    LET hits == {i \in from..(Len(s) - Len(sub) + 1) : SubSeq(s, i, i + Len(sub) - 1) = sub}
    IN  IF hits = {} THEN 0 ELSE CHOOSE i \in hits : \A j \in hits : i <= j

\* Index of the last occurrence of the character c in s; 0 if none
LastIndex(s, c) ==
    LET hits == {i \in 1..Len(s) : s[i] = c}
    IN  IF hits = {} THEN 0 ELSE CHOOSE i \in hits : \A j \in hits : j <= i

\* path.rsplit('-', 1)
rsplit1(s, c) ==
    LET i == LastIndex(s, c)
    IN  IF i = 0 THEN <<s>> ELSE <<SubSeq(s, 1, i - 1), SubSeq(s, i + 1, Len(s))>>

\* (parts[1].split('.', 1) + [''])[0]
before_dot(s) ==
    LET i == Find(s, <<".">>, 1)
    IN  IF i = 0 THEN s ELSE SubSeq(s, 1, i - 1)

\* snapshot_name.split(sep)[1]: ok is FALSE for ValueError (empty separator)
\* and IndexError (no occurrence)
split_second(s, sep) ==
    LET i1 == Find(s, sep, 1)
        start == i1 + Len(sep)
        i2 == Find(s, sep, start)
    IN  IF Len(sep) = 0 \/ i1 = 0 THEN [ok |-> FALSE, text |-> <<>>]
        ELSE IF i2 = 0 THEN [ok |-> TRUE, text |-> SubSeq(s, start, Len(s))]
        ELSE [ok |-> TRUE, text |-> SubSeq(s, start, i2 - 1)]

IsDigit(c) == \E n \in 0..9 : DigitChars[n + 1] = c

DigitValue(c) == CHOOSE n \in 0..9 : DigitChars[n + 1] = c

RECURSIVE Number(_)
Number(s) ==
    IF Len(s) = 0 THEN 0
    ELSE 10 * Number(SubSeq(s, 1, Len(s) - 1)) + DigitValue(s[Len(s)])

AllDigits(s) == \A i \in 1..Len(s) : IsDigit(s[i])

\* A field of one or two digits, as the regular expressions of _strptime
\* take it
Field12(s) == Len(s) \in {1, 2} /\ AllDigits(s)

\* %d also takes a space followed by one digit
DayField(s) ==
    \/ Field12(s)
    \/ Len(s) = 2 /\ s[1] = " " /\ IsDigit(s[2])

DayNumber(s) == IF s[1] = " " THEN DigitValue(s[2]) ELSE Number(s)

DaysInMonth(y, m) ==
    IF m \in {4, 6, 9, 11} THEN 30
    ELSE IF m # 2 THEN 31
    ELSE IF (y % 4 = 0 /\ y % 100 # 0) \/ y % 400 = 0 THEN 29
    ELSE 28

\* Index of the separator sep behind position i (0: no separator so far)
next_sep(s, sep, i) == IF i = 0 THEN 0 ELSE Find(s, <<sep>>, i + 1)

\* The datetime of six numbers; ok is FALSE (ValueError) unless the date and
\* the time of day exist
make_datetime(Y, m, d, H, M, S) ==
    [ok |-> /\ Y >= 1
            /\ m \in 1..12
            /\ d >= 1
            /\ d <= DaysInMonth(Y, m)
            /\ H \in 0..23
            /\ M \in 0..59
            /\ S \in 0..59,
     timestamp |-> [Y |-> Y, m |-> m, d |-> d, H |-> H, M |-> M, S |-> S]]

\* The six fields of a timestamp, as text
strptime_fields(fY, fm, fd, fH, fM, fS) ==
    IF /\ Len(fY) = 4
       /\ AllDigits(fY)
       /\ Field12(fm)
       /\ DayField(fd)
       /\ Field12(fH)
       /\ Field12(fM)
       /\ Field12(fS)
    THEN make_datetime(Number(fY), Number(fm), DayNumber(fd),
                       Number(fH), Number(fM), Number(fS))
    ELSE [ok |-> FALSE, timestamp |-> NoTimestamp]

\* The text cut at its separators, which are at i1 < i2 < i3 < i4 < i5
strptime_at(s, i1, i2, i3, i4, i5) ==
    IF i5 = 0 THEN [ok |-> FALSE, timestamp |-> NoTimestamp]
    ELSE strptime_fields(SubSeq(s, 1, i1 - 1), SubSeq(s, i1 + 1, i2 - 1),
                         SubSeq(s, i2 + 1, i3 - 1), SubSeq(s, i3 + 1, i4 - 1),
                         SubSeq(s, i4 + 1, i5 - 1), SubSeq(s, i5 + 1, Len(s)))

\* datetime.strptime(s, '%Y-%m-%d_%H-%M-%S'): the whole string must match
\* \d{4}-(1[0-2]|0[1-9]|[1-9])-(3[01]|[12]\d|0[1-9]|[1-9]| [1-9])_
\* (2[0-3]|[0-1]\d|\d)-([0-5]\d|\d)-(6[0-1]|[0-5]\d|\d) and name a date that
\* exists (datetime rejects the seconds 60 and 61); ok is FALSE for ValueError
strptime(s) ==
    LET i1 == Find(s, <<"-">>, 1)
        i2 == next_sep(s, "-", i1)
        i3 == next_sep(s, "_", i2)
        i4 == next_sep(s, "-", i3)
        i5 == next_sep(s, "-", i4)
    IN  strptime_at(s, i1, i2, i3, i4, i5)

\* datetime's order: a < b
TsLess(a, b) ==
    LET ka == <<a.Y, a.m, a.d, a.H, a.M, a.S>>
        kb == <<b.Y, b.m, b.d, b.H, b.M, b.S>>
    IN  \E i \in 1..6 : ka[i] < kb[i] /\ \A j \in 1..(i - 1) : ka[j] = kb[j]

\* --------------------------------------------------- restore.py the chain
FULL == "full"
INCREMENTAL == "incremental"

\* BackupType(backup_type_str): ok is FALSE for ValueError
BackupType(str) ==
    IF str = <<"f", "u", "l", "l">> THEN [ok |-> TRUE, type |-> FULL]
    ELSE IF str = <<"i", "n", "c", "r", "e", "m", "e", "n", "t", "a", "l">>
    THEN [ok |-> TRUE, type |-> INCREMENTAL]
    ELSE [ok |-> FALSE, type |-> ""]

Skipped == [ok |-> FALSE, info |-> NoBackup]

\* parse_timestamp without the except clause of line 105
parse_timestamp_uncaught(b, snapshot_name, type, parsed) ==
    [ok |-> TRUE,
     info |-> [path |-> b.Path, snapshot_name |-> snapshot_name,
               timestamp |-> parsed.timestamp, type |-> type,
               size |-> b.Size]]

\* find_backup_chain, lines 97-107
parse_timestamp(b, snapshot_name, type, parsed) ==
    IF ~parsed.ok THEN Skipped
    ELSE [ok |-> TRUE,
          info |-> [path |-> b.Path, snapshot_name |-> snapshot_name,
                    timestamp |-> parsed.timestamp, type |-> type,
                    size |-> b.Size]]

\* find_backup_chain, lines 94-96
parse_snapshot_name(b, snapshot_name, type, timestamp_str) ==
    IF ~timestamp_str.ok THEN Skipped
    ELSE parse_timestamp(b, snapshot_name, type, strptime(timestamp_str.text))

\* find_backup_chain, lines 87-91
parse_type(b, snapshot_name, backup_type, config) ==
    IF ~backup_type.ok THEN Skipped
    ELSE parse_snapshot_name(b, snapshot_name, backup_type.type,
                             split_second(snapshot_name, config.snapshot_prefix))

\* find_backup_chain, lines 82-85
parse_parts(b, parts, config) ==
    IF Len(parts) # 2 THEN Skipped
    ELSE parse_type(b, parts[1], BackupType(before_dot(parts[2])), config)

\* find_backup_chain, lines 77-107: one entry of the listing; ok is FALSE
\* where the loop continues without appending
parse_backup(b, config) ==
    IF ~StartsWith(b.Path, SnapshotBase(config)) THEN Skipped
    ELSE parse_parts(b, rsplit1(b.Path, "-"), config)

\* lines 73-107: the records of the entries that parse, in listing order
RECURSIVE dataset_backups(_, _)
append_parsed(front, r) == IF r.ok THEN Append(front, r.info) ELSE front

dataset_backups(files, config) ==
    IF Len(files) = 0 THEN <<>>
    ELSE append_parsed(dataset_backups(SubSeq(files, 1, Len(files) - 1), config),
                       parse_backup(files[Len(files)], config))

\* list.sort(key=lambda x: x.timestamp) is stable: x goes behind every
\* record whose timestamp is not greater
insert_sorted(sorted, x) ==
    LET behind == {i \in 1..Len(sorted) : TsLess(x.timestamp, sorted[i].timestamp)}
        k == IF behind = {} THEN Len(sorted) + 1
             ELSE CHOOSE i \in behind : \A j \in behind : i <= j
    IN  SubSeq(sorted, 1, k - 1) \o <<x>> \o SubSeq(sorted, k, Len(sorted))

\* line 113
RECURSIVE sort_by_timestamp(_)
sort_by_timestamp(records) ==
    IF Len(records) = 0 THEN <<>>
    ELSE insert_sorted(sort_by_timestamp(SubSeq(records, 1, Len(records) - 1)),
                       records[Len(records)])

\* last_full_backup scanning from the front
first_full_backup(sorted) ==
    LET fulls == {i \in 1..Len(sorted) : sorted[i].type = FULL}
    IN  IF fulls = {} THEN NoBackup
        ELSE sorted[CHOOSE i \in fulls : \A j \in fulls : i <= j]

\* lines 116-120: the first full record met scanning the sorted records from
\* the end
last_full_backup(sorted) ==
    LET fulls == {i \in 1..Len(sorted) : sorted[i].type = FULL}
    IN  IF fulls = {} THEN NoBackup
        ELSE sorted[CHOOSE i \in fulls : \A j \in fulls : j <= i]

\* is_later_incremental with >= for >
is_not_earlier_incremental(backup, full) ==
    backup.type = INCREMENTAL /\ ~TsLess(backup.timestamp, full.timestamp)

\* line 128
is_later_incremental(backup, full) ==
    backup.type = INCREMENTAL /\ TsLess(full.timestamp, backup.timestamp)

\* find_backup_chain, lines 122-131
chain_from(sorted, last_full) ==
    IF last_full = NoBackup THEN [full |-> NoBackup, incrementals |-> <<>>]
    ELSE [full |-> last_full,
          incrementals |->
              SelectSeq(sorted, LAMBDA x : is_later_incremental(x, last_full))]

\* find_backup_chain, lines 109-120
chain_of(records) ==
    IF Len(records) = 0 THEN [full |-> NoBackup, incrementals |-> <<>>]
    ELSE chain_from(sort_by_timestamp(records),
                    last_full_backup(sort_by_timestamp(records)))

\* find_backup_chain, lines 71-131
find_backup_chain(files, config) == chain_of(dataset_backups(files, config))

\* ------------------------------------------------------- restore.py main
\* Object names a remote listing may hold: backups of the dataset at the
\* clock values 1..3 and names that are not backups of it.
ObjectName(base, stamp, suffix) == base \o stamp \o suffix

SuffixFullGz == <<"-", "f", "u", "l", "l", ".", "g", "z">>
SuffixFullZst == <<"-", "f", "u", "l", "l", ".", "z", "s", "t">>
SuffixIncGz == <<"-", "i", "n", "c", "r", "e", "m", "e", "n", "t", "a", "l", ".", "g", "z">>

RemotePaths ==
    LET base == Dataset \o <<"@">> \o Prefix
        T(k) == strftime(now(k))
    IN  { ObjectName(base, T(1), SuffixFullGz),
          ObjectName(base, T(2), SuffixFullGz),
          ObjectName(base, T(3), SuffixFullZst),
          ObjectName(base, T(1), SuffixIncGz),
          ObjectName(base, T(2), SuffixIncGz),
          ObjectName(base, T(3), SuffixIncGz),
          \* the same second as T(2), written without the leading zeros
          ObjectName(base, <<"2", "0", "2", "4", "-", "1", "-", "1", "_", "0", "-", "0", "-", "2">>, SuffixIncGz),
          \* not a backup type
          ObjectName(base, T(2), <<"-", "d", "i", "f", "f", ".", "g", "z">>),
          \* not a timestamp
          ObjectName(base, <<"2", "0", "2", "4">>, SuffixFullGz),
          \* no "-" anywhere
          ObjectName(base, <<>>, <<"f", "u", "l", "l", ".", "g", "z">>),
          \* another dataset
          ObjectName(<<"x", "@">> \o Prefix, T(3), SuffixFullGz) }

RemoteFiles == {[Path |-> q, Size |-> 1] : q \in RemotePaths}

Listings == UNION {[1..n -> RemoteFiles] : n \in 0..MaxListing}

\* rclone lists each object once
DistinctPaths(l) == \A i, j \in 1..Len(l) : i # j => l[i].Path # l[j].Path

BackupIdle ==
    /\ cfg \in {c \in Configs : c.snapshot_retention = 1 /\ c.compressor = "zstd"}
    /\ args_full = FALSE
    /\ clock = MaxPrior + 1
    /\ zfs = <<>>
    /\ pc = "exited"
    /\ snapshots = <<>>
    /\ latest_snapshot = None
    /\ new_snapshot = None
    /\ backup_process = [bound |-> FALSE, polled |-> FALSE, returncode |-> 0]
    /\ proc = NoProc
    /\ cmd_ok = FALSE
    /\ prune_list = <<>>
    /\ to_prune = <<>>
    /\ prune_i = 1
    /\ ds = NoFrame
    /\ trace = <<>>
    /\ destroy_log = {}
    /\ prune_calls = <<>>
    /\ shutdown = <<>>
    /\ signals = <<>>
    /\ created = FALSE
    /\ prune_invoked = FALSE
    /\ exit_status = 0
    /\ remote = <<>>
    /\ runs = 1

\* args.target_dataset
TargetDataset == <<"t">>

\* Lines the operator may type at the prompt
Answers == { <<"y", "e", "s">>, <<"Y", "E", "S">>, <<"Y", "e", "s">>,
             <<"y">>, <<"n", "o">>, <<>> }

UpperCase == <<"A", "B", "C", "D", "E", "F", "G", "H", "I", "J", "K", "L", "M",
               "N", "O", "P", "Q", "R", "S", "T", "U", "V", "W", "X", "Y", "Z">>
LowerCase == <<"a", "b", "c", "d", "e", "f", "g", "h", "i", "j", "k", "l", "m",
               "n", "o", "p", "q", "r", "s", "t", "u", "v", "w", "x", "y", "z">>

lower_char(c) ==
    IF \E i \in 1..26 : UpperCase[i] = c
    THEN LowerCase[CHOOSE i \in 1..26 : UpperCase[i] = c]
    ELSE c

\* str.lower()
lower(s) == [i \in 1..Len(s) |-> lower_char(s[i])]

\* declined taking only "no" for a refusal
declined_only_no(answer) == lower(answer) = <<"n", "o">>

\* line 194: confirm.lower() != 'yes'
declined(answer) == lower(answer) # <<"y", "e", "s">>

\* restore_backup, lines 136-148: the pipeline it builds; decompress is ""
\* where the stage is left out
restore_backup(config, backup_path, target_dataset) ==
    [rclone_cat  |-> config.rclone_remote \o <<":">> \o config.bucket_name
                        \o <<"/">> \o backup_path,
     decompress  |-> get_compressor_by_filename(backup_path).decompress_cmd,
     zfs_receive |-> target_dataset]

\* restore_succeeded treating a failed pipeline as restored
restore_succeeded_always(status) == TRUE

\* restore_backup, lines 153-159: True unless check=True raises
\* CalledProcessError
restore_succeeded(status) == status = 0

\* restore.py main, line 173: list_backups has returned the listing
RestoreInit ==
    /\ BackupIdle
    /\ backups \in {l \in Listings : DistinctPaths(l)}
    /\ chain = [full |-> NoBackup, incrementals |-> <<>>]
    /\ rpc = "find_backup_chain"
    /\ confirm = [bound |-> FALSE, text |-> None]
    /\ restore_i = 1
    /\ received = <<>>
    /\ restore_status = 0

\* restore.py main, line 176
FindBackupChain ==
    /\ rpc = "find_backup_chain"
    /\ chain' = find_backup_chain(backups, cfg)
    /\ rpc' = "resolved"
    /\ UNCHANGED <<backup_vars, backups, confirm, restore_i, received, restore_status>>

\* sys.exit(status), main() returning (0) or an uncaught exception (1)
RestoreExit(status) ==
    /\ rpc' = "exited"
    /\ restore_status' = status

\* lines 178-180
CheckFull ==
    /\ rpc = "resolved"
    /\ IF chain.full = NoBackup
       THEN RestoreExit(1)
       ELSE rpc' = "confirm" /\ UNCHANGED restore_status
    /\ UNCHANGED <<backup_vars, backups, chain, confirm, restore_i, received>>

\* lines 193-196: input() returns the line the operator typed
Confirm ==
    /\ rpc = "confirm"
    /\ \E answer \in Answers :
           /\ confirm' = [bound |-> TRUE, text |-> answer]
           /\ IF declined(answer)
              THEN RestoreExit(0)
              ELSE rpc' = "restore_full" /\ UNCHANGED restore_status
    /\ UNCHANGED <<backup_vars, backups, chain, restore_i, received>>

\* line 193: input() raises EOFError at the end of standard input, which
\* nothing catches
ConfirmEOF ==
    /\ rpc = "confirm"
    /\ RestoreExit(1)
    /\ UNCHANGED <<backup_vars, backups, chain, confirm, restore_i, received>>

\* restore_backup, line 154: subprocess.run starts the pipeline
RunPipeline(backup_path) ==
    received' = Append(received,
                       [path   |-> backup_path,
                        cmd    |-> restore_backup(cfg, backup_path, TargetDataset),
                        running |-> TRUE,
                        status |-> 0])

\* restore_backup, lines 154-159: the pipeline has ended with this status
EndPipeline(status) ==
    received' = [received EXCEPT ![Len(received)].running = FALSE,
                                 ![Len(received)].status = status]

\* line 199, into restore_backup
RestoreFull ==
    /\ rpc = "restore_full"
    /\ RunPipeline(chain.full.path)
    /\ rpc' = "full_run"
    /\ UNCHANGED <<backup_vars, backups, chain, confirm, restore_i, restore_status>>

\* lines 199-201: restore_backup returns True for status 0
RestoreFullCheck ==
    /\ rpc = "full_run"
    /\ \E status \in PipeStatuses :
           /\ EndPipeline(status)
           /\ IF restore_succeeded(status)
              THEN rpc' = "for_inc" /\ UNCHANGED restore_status
              ELSE RestoreExit(1)
    /\ UNCHANGED <<backup_vars, backups, chain, confirm, restore_i>>

\* lines 204-205, into restore_backup
RestoreIncremental ==
    /\ rpc = "for_inc"
    /\ restore_i <= Len(chain.incrementals)
    /\ RunPipeline(chain.incrementals[restore_i].path)
    /\ rpc' = "inc_run"
    /\ UNCHANGED <<backup_vars, backups, chain, confirm, restore_i, restore_status>>

\* lines 205-207
RestoreIncrementalCheck ==
    /\ rpc = "inc_run"
    /\ \E status \in PipeStatuses :
           /\ EndPipeline(status)
           /\ IF restore_succeeded(status)
              THEN /\ rpc' = "for_inc"
                   /\ restore_i' = restore_i + 1
                   /\ UNCHANGED restore_status
              ELSE RestoreExit(1) /\ UNCHANGED restore_i
    /\ UNCHANGED <<backup_vars, backups, chain, confirm>>

\* line 209: the loop is exhausted and main returns
RestoreCompleted ==
    /\ rpc = "for_inc"
    /\ restore_i > Len(chain.incrementals)
    /\ RestoreExit(0)
    /\ UNCHANGED <<backup_vars, backups, chain, confirm, restore_i, received>>

RestoreNext ==
    \/ FindBackupChain
    \/ CheckFull
    \/ Confirm
    \/ ConfirmEOF
    \/ RestoreFull
    \/ RestoreFullCheck
    \/ RestoreIncremental
    \/ RestoreIncrementalCheck
    \/ RestoreCompleted

RestoreSpec == RestoreInit /\ [][RestoreNext]_vars

\* ------------------------------------- object names, backup to restore
\* Configurations that differ in dataset and prefix: a pool's root dataset
\* and a child dataset of pool p, with a prefix that occurs in neither and
\* one that is the pool's name
NameConfigs ==
    [zfs_dataset : {<<"d">>, <<"p", "/", "d">>},
     snapshot_prefix : {<<"p">>, <<"q">>},
     snapshot_retention : {-1},
     rclone_remote : {<<"r">>}, bucket_name : {<<"b">>},
     compressor : CompressorNames]

\* Seconds of January 2024 at which a snapshot is named: midnight of the
\* 1st, one-digit and two-digit fields, the last second of a day, a later
\* day of the month
NameClocks == {0, 9, 59, 86399, 2505600 + 45296}

\* A backup run that has ended, with the snapshot it found as the latest
NamesInit ==
    /\ RestoreIdle
    /\ cfg \in NameConfigs
    /\ clock \in NameClocks
    /\ args_full \in BOOLEAN
    /\ snapshots \in {<<>>, <<SnapshotBase(cfg) \o strftime(now(0))>>}
    /\ latest_snapshot = None
    /\ zfs = snapshots
    /\ pc = "exited"
    /\ new_snapshot = None
    /\ backup_process = [bound |-> FALSE, polled |-> FALSE, returncode |-> 0]
    /\ proc = NoProc
    /\ cmd_ok = FALSE
    /\ prune_list = <<>>
    /\ to_prune = <<>>
    /\ prune_i = 1
    /\ ds = NoFrame
    /\ trace = <<>>
    /\ destroy_log = {}
    /\ prune_calls = <<>>
    /\ shutdown = <<>>
    /\ signals = <<>>
    /\ created = FALSE
    /\ prune_invoked = FALSE
    /\ exit_status = 0
    /\ remote = <<>>
    /\ runs = 1

\* backup.py main, lines 120-127, and backup_snapshot, lines 31-42: the
\* snapshot is named after the clock and its object after the snapshot; the
\* pipeline stores the object
BuildObject ==
    /\ rpc = "idle"
    /\ remote = <<>>
    /\ latest_snapshot' = latest_snapshot_of(snapshots, args_full)
    /\ new_snapshot' = SnapshotName(cfg, clock)
    /\ remote' = <<uploaded(cfg, backup_snapshot(cfg, new_snapshot', latest_snapshot'))>>
    /\ UNCHANGED <<cfg, args_full, clock, zfs, pc, snapshots, backup_process,
                   proc, cmd_ok, prune_list, to_prune, prune_i, ds, trace,
                   destroy_log, prune_calls, shutdown, signals, created,
                   prune_invoked, exit_status, runs, restore_vars>>

\* rclone lsjson --recursive --include "<dataset>*" --files-only: the
\* objects whose path is the dataset followed by characters other than "/"
rclone_include(path, dataset) ==
    /\ StartsWith(path, dataset)
    /\ ~Contains(SubSeq(path, Len(dataset) + 1, Len(path)), <<"/">>)

\* list_backups, lines 47-62: Path and Size of each listed object
list_backups(objects, config) ==
    LET listed == SelectSeq(objects,
                            LAMBDA o : rclone_include(o.Path, config.zfs_dataset))
    IN  [i \in 1..Len(listed) |-> [Path |-> listed[i].Path, Size |-> listed[i].Size]]

\* restore.py main, line 173
ListBackups ==
    /\ rpc = "idle"
    /\ remote # <<>>
    /\ backups' = list_backups(remote, cfg)
    /\ rpc' = "find_backup_chain"
    /\ UNCHANGED <<backup_vars, chain, confirm, restore_i, received, restore_status>>

NamesNext ==
    \/ BuildObject
    \/ ListBackups
    \/ FindBackupChain

NamesSpec == NamesInit /\ [][NamesNext]_vars

\* ================================================================ claims
Range(q) == {q[i] : i \in 1..Len(q)}

CleanFailure ==
    /\ signals = <<>>
    /\ backup_process.polled
    /\ backup_process.returncode # 0

\* C1: no 'zfs destroy' of the run's new snapshot is issued while the
\* pipeline's process group is still running, wherever a termination request
\* arrives.
C1_NoDestroyWhilePipelineRuns ==
    \A e \in destroy_log :
        (Truthy(new_snapshot) /\ e.snapshot = new_snapshot) => e.pipeline # "running"

\* C2: once the pipeline has exited with status 0, no cleanup destroy (one
\* that is not pruning) is issued for the run's new snapshot.
C2_NoCleanupAfterSuccess ==
    \A e \in destroy_log :
        (e.snapshot = new_snapshot /\ e.by # "prune")
            => ~(e.pipeline = "exited" /\ e.status = 0)

\* C3: a pipeline that exits non-zero without interruption makes the run end
\* with a non-zero exit status, and the run ends with status 0 only when the
\* pipeline succeeded.
C3_FailureSurfaced ==
    pc = "exited" =>
        /\ CleanFailure => exit_status # 0
        /\ exit_status = 0 =>
               (backup_process.polled /\ backup_process.returncode = 0)

\* C4: when the pipeline exits non-zero without interruption, the run issues
\* a destroy for the snapshot it just created, destroys no other snapshot,
\* and never invokes pruning.
C4_FailureCleansUpWithoutPruning ==
    CleanFailure =>
        /\ ~prune_invoked
        /\ prune_calls = <<>>
        /\ \A e \in destroy_log : e.snapshot = new_snapshot
        /\ pc = "exited" =>
               /\ Truthy(new_snapshot)
               /\ \E e \in destroy_log : e.snapshot = new_snapshot

C4_Witness ==
    /\ pc = "exited"
    /\ CleanFailure
    /\ Len(snapshots) = 2
    /\ \E e \in destroy_log : e.snapshot = new_snapshot /\ e.by = "fail"

\* C5: a termination request that arrives after the new snapshot was created
\* leads to: SIGTERM to the pipeline's group if it runs, a wait for its exit,
\* a destroy of the new snapshot, and a non-zero exit; no step skipped, also
\* when a further request arrives during the shutdown.
C5_InterruptedShutdownComplete ==
    (pc = "exited" /\ \E i \in 1..Len(signals) : signals[i].created) =>
        /\ exit_status # 0
        /\ proc.state # "running"
        /\ \E i \in 1..Len(shutdown) : shutdown[i] = "destroy"
        /\ \A e \in destroy_log : e.by = "except" =>
               (e.snapshot = new_snapshot /\ e.pipeline # "running")
        /\ \A i \in 1..Len(shutdown) : shutdown[i] = "killpg" =>
               (i = 1 /\ Len(shutdown) >= 3 /\ shutdown[2] = "wait"
                      /\ shutdown[3] = "destroy")

\* What C6 expects prune_snapshots to hand to destroy_snapshot
C6_Expected ==
    LET r == cfg.snapshot_retention
        n == Len(prune_list)
    IN  IF r <= 0 \/ n <= r THEN <<>> ELSE [i \in 1..(n - r) |-> prune_list[i]]

\* C6: prune_snapshots hands to destroy exactly the first n - r entries of
\* the listing, each once and in order, when r > 0 and n > r, and nothing when
\* r <= 0 or n <= r, whatever the outcome of the individual destroys; the last
\* r entries are never the target of one of its destroy commands.
C6_PruneDestroysOldest ==
    /\ Len(prune_calls) <= Len(C6_Expected)
    /\ \A i \in 1..Len(prune_calls) : prune_calls[i] = C6_Expected[i]
    /\ \A e \in destroy_log : e.by = "prune" =>
           /\ e.snapshot \in Range(C6_Expected)
           /\ \A i \in 1..Len(prune_list) :
                  i > Len(prune_list) - cfg.snapshot_retention
                      => e.snapshot # prune_list[i]
    /\ (pc = "exited" /\ exit_status = 0 /\ prune_invoked) =>
           /\ prune_calls = C6_Expected
           /\ {e.snapshot : e \in {x \in destroy_log : x.by = "prune"}}
                  = Range(C6_Expected)

C6_Witness ==
    /\ pc = "exited"
    /\ exit_status = 0
    /\ prune_invoked
    /\ Len(prune_list) = 3
    /\ Len(prune_calls) = 2
    /\ Len(zfs) >= 2

\* The attempts and waits C7 expects of an always-busy backend
C7_BusyPattern ==
    [i \in 1..9 |-> IF i % 2 = 1
                    THEN [ev |-> "attempt", result |-> "busy", secs |-> 0]
                    ELSE [ev |-> "sleep", result |-> "", secs |-> 2]]

C7_AllBusy ==
    \A i \in 1..Len(trace) : trace[i].ev = "attempt" => trace[i].result = "busy"

\* C7: against a backend that always answers 'dataset is busy',
\* destroy_snapshot makes exactly 5 attempts with a 2-second wait between
\* consecutive attempts (4 waits, none after the last) and then returns.
C7_AlwaysBusyFiveAttempts ==
    C7_AllBusy =>
        /\ Len(trace) <= 9
        /\ \A i \in 1..Len(trace) : trace[i] = C7_BusyPattern[i]
        /\ (ds.status = "returned" /\ Truthy(ds.name)) => trace = C7_BusyPattern
        /\ (pc = "ds_sleep") => Len(trace) < 9

C7_Witness ==
    /\ ds.status = "returned"
    /\ C7_AllBusy
    /\ Len(trace) = 9

\* The extension of the configured compressor (pigz for an unknown name)
C8_Ext == IF cfg.compressor = "zstd" THEN <<"z", "s", "t">> ELSE <<"g", "z">>

\* C8: the run is incremental iff the listing is non-empty and full was not
\* forced; then the source is the last listed snapshot and the object name
\* ends in -incremental.<ext>; otherwise it is a full send with no source and
\* the object name ends in -full.<ext>.
C8_FullOrIncremental ==
    proc.state # "none" =>
        LET send == proc.cmd.zfs_send
            incremental == Len(snapshots) > 0 /\ ~args_full
        IN  /\ send.incremental <=> incremental
            /\ send.to = new_snapshot
            /\ incremental =>
                 /\ send.from = snapshots[Len(snapshots)]
                 /\ EndsWith(proc.cmd.remote_path,
                             new_snapshot \o <<"-", "i", "n", "c", "r", "e", "m", "e", "n", "t", "a", "l", ".">> \o C8_Ext)
            /\ ~incremental =>
                 /\ send.from = None
                 /\ EndsWith(proc.cmd.remote_path,
                             new_snapshot \o <<"-", "f", "u", "l", "l", ".">> \o C8_Ext)

C8_Witness ==
    /\ proc.state = "running"
    /\ proc.cmd.zfs_send.incremental
    /\ Len(snapshots) = 2
    /\ Len(zfs) = 4

C8_WitnessForcedFull ==
    /\ proc.state = "running"
    /\ ~proc.cmd.zfs_send.incremental
    /\ args_full
    /\ Len(snapshots) = 2

\* The records of the entries of the listing that parse
ParsedRecords ==
    {parse_backup(backups[i], cfg).info :
        i \in {k \in 1..Len(backups) : parse_backup(backups[k], cfg).ok}}

ParsedFulls == {r \in ParsedRecords : r.type = "full"}

\* C9: find_backup_chain returns as full a parsed full record that no parsed
\* full record exceeds in timestamp, and returns (None, []) exactly when no
\* entry parses to a full record, incremental records or not.
C9_LatestFullChosen ==
    rpc = "resolved" =>
        /\ (chain.full = NoBackup) <=> (ParsedFulls = {})
        /\ ParsedFulls = {} => chain.incrementals = <<>>
        /\ ParsedFulls # {} =>
               /\ chain.full \in ParsedFulls
               /\ \A f \in ParsedFulls :
                      ~TsLess(chain.full.timestamp, f.timestamp)

C9_Witness ==
    /\ rpc = "resolved"
    /\ Len(backups) = 3
    /\ Cardinality(ParsedFulls) = 2
    /\ chain.full.path = backups[1].Path
    /\ \E f \in ParsedFulls : TsLess(f.timestamp, chain.full.timestamp)

C9_WitnessNoFull ==
    /\ rpc = "resolved"
    /\ ParsedFulls = {}
    /\ Cardinality(ParsedRecords) = 2
    /\ chain.full = NoBackup

\* The parsed incremental records behind the chosen full
C10_Later ==
    {r \in ParsedRecords :
        r.type = "incremental" /\ TsLess(chain.full.timestamp, r.timestamp)}

\* C10: with a full record returned, the incrementals returned are exactly
\* the parsed incremental records whose timestamp is strictly greater than
\* the full's, each once, in ascending timestamp order whatever the order of
\* the listing.
C10_IncrementalsAfterFull ==
    (rpc = "resolved" /\ chain.full # NoBackup) =>
        /\ Range(chain.incrementals) = C10_Later
        /\ Len(chain.incrementals) = Cardinality(C10_Later)
        /\ \A i, j \in 1..Len(chain.incrementals) :
               i < j => ~TsLess(chain.incrementals[j].timestamp,
                                chain.incrementals[i].timestamp)

C10_Witness ==
    /\ rpc = "resolved"
    /\ Len(backups) = 3
    /\ Len(chain.incrementals) = 2
    /\ chain.incrementals[1].path = backups[3].Path
    /\ chain.incrementals[2].path = backups[1].Path
    /\ TsLess(chain.incrementals[1].timestamp, chain.incrementals[2].timestamp)

\* The four kinds of entry find_backup_chain discards, read off the path:
\* it does not start with dataset@prefix, it has no "-", the text between
\* the last "-" and the first "." behind it is no backup type, or the text
\* behind the prefix is no timestamp
C11_Malformed(path) ==
    \/ ~StartsWith(path, SnapshotBase(cfg))
    \/ ~Contains(path, <<"-">>)
    \/ ~BackupType(before_dot(rsplit1(path, "-")[2])).ok
    \/ ~split_second(rsplit1(path, "-")[1], cfg.snapshot_prefix).ok
    \/ ~strptime(split_second(rsplit1(path, "-")[1], cfg.snapshot_prefix).text).ok

C11_WellFormed == SelectSeq(backups, LAMBDA b : ~C11_Malformed(b.Path))

C11_Returned ==
    {r \in {chain.full} \cup Range(chain.incrementals) : r # NoBackup}

\* C11: find_backup_chain returns for a listing what it returns for the
\* listing without its malformed entries (wrong dataset@prefix, no "-",
\* unknown type suffix, unparseable timestamp), and no malformed entry is
\* among the records it returns.
C11_MalformedEntriesIgnored ==
    rpc # "find_backup_chain" =>
        /\ chain = find_backup_chain(C11_WellFormed, cfg)
        /\ \A r \in C11_Returned : ~C11_Malformed(r.path)

C11_Witness ==
    /\ rpc # "find_backup_chain"
    /\ Len(backups) = 3
    /\ Len(C11_WellFormed) = 1
    /\ C11_Malformed(backups[1].Path)
    /\ C11_Malformed(backups[2].Path)
    /\ StartsWith(backups[1].Path, SnapshotBase(cfg))
    /\ Contains(backups[1].Path, <<"-">>)
    /\ ~Contains(backups[2].Path, <<"-">>)
    /\ chain.full.path = backups[3].Path

\* The resolved chain in restore order: the full, then the incrementals
C12_Records == <<chain.full>> \o chain.incrementals

C12_Failed(k) == ~received[k].running /\ received[k].status # 0

\* C12: the pipelines a restore run starts are those of the full and then
\* of the incrementals in the resolved ascending order; each but the latest
\* has ended with success before the next was started; a failed pipeline
\* is the last one started and the run has exited with status 1; and a run
\* that exits with status 0 after a "yes" has restored every record.
C12_RestoreInOrderStopAtFailure ==
    /\ Len(received) <= Len(C12_Records)
    /\ \A k \in 1..Len(received) :
           /\ received[k].path = C12_Records[k].path
           /\ received[k].cmd.rclone_cat =
                  cfg.rclone_remote \o <<":">> \o cfg.bucket_name \o <<"/">>
                      \o C12_Records[k].path
           /\ k < Len(received) =>
                  /\ ~received[k].running /\ received[k].status = 0
                  /\ ~TsLess(C12_Records[k + 1].timestamp, C12_Records[k].timestamp)
           /\ C12_Failed(k) =>
                  k = Len(received) /\ rpc = "exited" /\ restore_status = 1
    /\ (rpc = "exited" /\ restore_status = 0 /\ received # <<>>) =>
           /\ Len(received) = Len(C12_Records)
           /\ \A k \in 1..Len(received) :
                  ~received[k].running /\ received[k].status = 0

C12_Witness ==
    /\ Len(chain.incrementals) = 2
    /\ chain.incrementals[1].path = backups[3].Path
    /\ Len(received) = 2
    /\ received[1].path = chain.full.path
    /\ received[1].status = 0
    /\ received[2].path = chain.incrementals[1].path
    /\ C12_Failed(2)
    /\ rpc = "exited"
    /\ restore_status = 1

C12_WitnessCompleted ==
    /\ Len(chain.incrementals) = 2
    /\ Len(received) = 3
    /\ rpc = "exited"
    /\ restore_status = 0

\* The names the registry holds
C13_Registered == {COMPRESSORS[i].name : i \in 1..Len(COMPRESSORS)}

\* C13: for a registered compressor name, the object name the backup builds
\* ends in "." and the extension of the entry resolved by name, and resolving
\* that object name by extension returns the same entry (same name, same
\* compress and decompress commands).
C13_RegistryBidirectional ==
    (proc.state # "none" /\ cfg.compressor \in C13_Registered) =>
        /\ get_compressor_by_name(cfg.compressor).name = cfg.compressor
        /\ EndsWith(proc.cmd.remote_path,
                    <<".">> \o get_compressor_by_name(cfg.compressor).extension)
        /\ get_compressor_by_filename(proc.cmd.remote_path)
               = get_compressor_by_name(cfg.compressor)

\* The attempt at position i of the trace succeeded or failed for a reason
\* other than 'dataset is busy'
C14_Terminal(i) ==
    trace[i].ev = "attempt" /\ trace[i].result \in {"ok", "error"}

\* C14: in the trace of a destroy_snapshot call, an attempt that succeeded or
\* failed otherwise than busy is the last event (no attempt, no wait behind
\* it) and the call is returning or has returned, not raised; an attempt
\* that is followed by anything failed busy, was one of the first 4, and is
\* followed by one wait of 2 seconds.
C14_StopsAtFirstTerminalAttempt ==
    \A i \in 1..Len(trace) :
        /\ trace[i].ev = (IF i % 2 = 1 THEN "attempt" ELSE "sleep")
        /\ trace[i].ev = "sleep" => trace[i].secs = delay
        /\ (trace[i].ev = "attempt" /\ i < Len(trace)) =>
               /\ trace[i].result = "busy"
               /\ (i + 1) \div 2 < retries
        /\ C14_Terminal(i) =>
               /\ i = Len(trace)
               /\ pc \notin {"ds_run", "ds_sleep"}
               /\ ds.status \in {"active", "returned", "aborted"}
               /\ ds.status = "active" => pc = "ds_check"
               /\ ds.status = "aborted" => signals # <<>>

C14_Witness ==
    /\ Len(trace) = 3
    /\ trace[1].result = "busy"
    /\ trace[2].ev = "sleep"
    /\ trace[3].result = "error"
    /\ C14_Terminal(3)
    /\ ds.status = "returned"
    /\ signals = <<>>

C14_WitnessSuccess ==
    /\ Len(trace) = 5
    /\ trace[5].result = "ok"
    /\ ds.status = "returned"
    /\ signals = <<>>

\* The operator answered yes: the line typed at the prompt is "yes", in the
\* letter case the operator chose
C15_AnsweredYes == confirm.bound /\ lower(confirm.text) = <<"y", "e", "s">>

\* C15: a receive against the target dataset has been started only if a
\* full record was resolved and the operator answered yes; a run that
\* resolved no full record ends with status 1, a run whose prompt got any
\* other answer ends with status 0, and neither has started a receive.
C15_NoReceiveWithoutFullAndYes ==
    /\ received # <<>> =>
           /\ chain.full # NoBackup
           /\ C15_AnsweredYes
           /\ \A k \in 1..Len(received) :
                  received[k].cmd.zfs_receive = TargetDataset
    /\ (rpc \notin {"find_backup_chain", "resolved"} /\ chain.full = NoBackup) =>
           /\ rpc = "exited"
           /\ restore_status = 1
           /\ ~confirm.bound
           /\ received = <<>>
    /\ (confirm.bound /\ ~C15_AnsweredYes) =>
           /\ rpc = "exited"
           /\ restore_status = 0
           /\ received = <<>>

C15_Witness ==
    /\ chain.full # NoBackup
    /\ confirm.bound
    /\ confirm.text = <<"y">>
    /\ rpc = "exited"
    /\ restore_status = 0
    /\ received = <<>>

C15_WitnessNoFull ==
    /\ Len(backups) = 2
    /\ chain.full = NoBackup
    /\ rpc = "exited"
    /\ restore_status = 1
    /\ received = <<>>

C15_WitnessReceive ==
    /\ C15_AnsweredYes
    /\ Len(received) = 1
    /\ received[1].running

\* The remote listing find_backup_chain is handed: the objects of the bucket
C16_Listing == [i \in 1..Len(remote) |-> [Path |-> remote[i].Path, Size |-> remote[i].Size]]

\* The resolved chain in restore order
C16_Chain ==
    IF find_backup_chain(C16_Listing, cfg).full = NoBackup THEN <<>>
    ELSE <<find_backup_chain(C16_Listing, cfg).full>>
             \o find_backup_chain(C16_Listing, cfg).incrementals

\* The source snapshot of the stream stored under a path
C16_Source(path) ==
    (CHOOSE o \in Range(remote) : o.Path = path).source

\* C16: every incremental object in the bucket has as its source a snapshot
\* whose own object is in the bucket, and in the chain find_backup_chain
\* resolves from the bucket each incremental's source is the snapshot of the
\* element before it.
C16_ChainContiguous ==
    /\ \A o \in Range(remote) :
           Truthy(o.source) => \E b \in Range(remote) : b.snapshot = o.source
    /\ \A k \in 2..Len(C16_Chain) :
           C16_Source(C16_Chain[k].path) = C16_Chain[k - 1].snapshot_name

\* C17: the object a backup stored under the name it built is listed, and
\* find_backup_chain under the same configuration parses its name back to
\* the snapshot name, the backup type and the timestamp of the backup (it is
\* not discarded), so a full object is the full it returns.
C17_ObjectNamesRoundTrip ==
    (rpc = "resolved" /\ Len(remote) = 1) =>
        /\ Len(backups) = 1
        /\ backups[1].Path = remote[1].Path
        /\ parse_backup(backups[1], cfg).ok
        /\ parse_backup(backups[1], cfg).info.snapshot_name = new_snapshot
        /\ parse_backup(backups[1], cfg).info.timestamp = now(clock)
        /\ parse_backup(backups[1], cfg).info.type =
               (IF Truthy(remote[1].source) THEN INCREMENTAL ELSE FULL)
        /\ ~Truthy(remote[1].source) => chain.full.path = remote[1].Path

\* C17 where the prefix does not occur in the dataset name
C17_RoundTripPrefixNotInDataset ==
    ~Contains(cfg.zfs_dataset, cfg.snapshot_prefix) => C17_ObjectNamesRoundTrip

\* The second half of C16 alone
C16_ResolvedChainContiguous ==
    (\A o \in Range(remote) :
        Truthy(o.source) => \E b \in Range(remote) : b.snapshot = o.source)
    => \A k \in 2..Len(C16_Chain) :
           C16_Source(C16_Chain[k].path) = C16_Chain[k - 1].snapshot_name

=============================================================================
